---- MODULE Spec2Model ----
(***************************************************************************)
(* A model of the CircuitPython HX711 driver: the HX711 base class         *)
(* (hx711/__init__.py), the software-timed backend (hx711_gpio.py) and the *)
(* PIO backend (hx711_pio.py).                                             *)
(*                                                                         *)
(*   Spec      the driver at call level: construction, the gain setter,    *)
(*             attribute assignment, tare, determine_scalar, read,         *)
(*             read_average, read_raw; one step per acquisition.           *)
(*   SpecLink  one acquisition at clock-edge level: the GPIO loop and the  *)
(*             free-running PIO program with its receive FIFO.             *)
(*   SpecEquiv both read_raw implementations fed the same waveforms.       *)
(*                                                                         *)
(* Python floats are modelled as exact rationals <<num, den>>.             *)
(***************************************************************************)
EXTENDS Integers, Sequences, FiniteSets, TLC

\* ------------------------------------------------------------------ constants
HX_DATA_BITS == 24
HX_MAX_VALUE == 8388607          \* 0x7FFFFF
COMPLMENT_MASK == 16777216       \* 0x1000000
PAD_MASK == 16777215             \* 0x00FFFFFF
PAD_BITS == 8                    \* "set x, 7": pad samples, 0-start
PUSH_THRESHOLD == 32
RX_FIFO_DEPTH == 4               \* RP2 receive FIFO, not joined by sm_init
TARE_PRE_COUNT == 5              \* tare: read_average(5)
AVERAGE_DEFAULT == 10            \* read_average(count=10)

\* --------------------------------------------------------------------- bounds
MaxCount == 3                    \* largest count passed to read / read_average
MaxGainInput == 4                \* gains offered to the constructor and setter
MaxWeight == 2                   \* largest added_weight
MaxSeq == 3                      \* waveforms per behaviour of SpecEquiv
MaxPolls == 2                    \* counted polls of the data line

Gains == {1, 2, 3}
GainInputs == 1..MaxGainInput
CountInputs == 0..MaxCount
WeightInputs == 0..MaxWeight
OffsetInputs == {0, 1}
ScalarInputs == {<<0, 1>>, <<1, 1>>, <<2, 1>>}
\* device conversion results (24-bit unsigned) offered at call level
Words == {0, 2, 16777215}
\* conversion results offered at link level: the decoder's corner cases
LinkWords == <<0, 8388607, 8388608, 16777215, 5592405>>
Backends == {"GPIO", "PIO"}
None == "None"

\* -------------------------------------------------------------------- helpers
Abs(a) == IF a < 0 THEN -a ELSE a

RECURSIVE GCD(_, _)
GCD(a, b) == IF b = 0 THEN a ELSE GCD(b, a % b)

RECURSIVE Pow2(_)
Pow2(k) == IF k = 0 THEN 1 ELSE 2 * Pow2(k - 1)

\* Python true division of two integers, d # 0, as a normalised rational
Rat(nn, d) ==
    LET g == GCD(Abs(nn), Abs(d))
        s == IF d < 0 THEN -1 ELSE 1
    IN  <<(s * nn) \div g, (s * d) \div g>>

\* integer k divided by the rational s, s[1] # 0
RatDiv(k, s) == Rat(k * s[2], s[1])

\* the low k bits of u, most significant first
RECURSIVE BitsOf(_, _)
BitsOf(u, k) == IF k = 0 THEN <<>> ELSE Append(BitsOf(u \div 2, k - 1), u % 2)

\* the bits the device shifts out for conversion result u, MSB first
WordBits(u) == BitsOf(u, HX_DATA_BITS)

\* acc = acc << 1 | bit
ShiftOrAsIs(acc, bit) == 2 * acc + bit

\* the accumulation loop of HX711_GPIO.read_raw over the sampled levels
RECURSIVE Accumulate(_, _)
Accumulate(acc, samples) ==
    IF samples = <<>> THEN acc
    ELSE Accumulate(ShiftOrAsIs(acc, Head(samples)), Tail(samples))

\* "if raw_reading > HX_MAX_VALUE: raw_reading -= COMPLMENT_MASK"
TwosComplement(raw) == IF raw > HX_MAX_VALUE THEN raw - COMPLMENT_MASK ELSE raw

\* "raw_reading = raw_reading >> self.gain"; KeepGainBits is the read without
\* the shift
KeepGainBits(raw, g) == raw
PopGainBits(raw, g) == raw \div Pow2(g)

\* HX711_GPIO.read_raw once the data line is ready: samples are the levels read
\* after each of the HX_DATA_BITS + gain falling edges
GPIO_read_raw(samples, g) == TwosComplement(PopGainBits(Accumulate(0, samples), g))

\* the 32-bit input shift register and the words of the receive FIFO are kept
\* as 32 bits, most significant first
IsrEmpty == [k \in 1..PUSH_THRESHOLD |-> 0]

\* "in pins, 1" with in_shift_right=False: shift left, the new bit enters at the LSB
IsrShiftIn(isrv, bit) == Tail(isrv) \o <<bit>>

RECURSIVE IsrShiftAll(_, _)
IsrShiftAll(isrv, samples) ==
    IF samples = <<>> THEN isrv
    ELSE IsrShiftAll(IsrShiftIn(isrv, Head(samples)), Tail(samples))

\* the word one pass of HX711_READ_CODE pushes: PAD_BITS pad samples, then the data
PioWord(padLevel, u) ==
    IsrShiftAll(IsrEmpty, [k \in 1..PAD_BITS |-> padLevel] \o WordBits(u))

\* bit k (1 = most significant of 32) of a mask m below 2^30
MaskBit(m, k) ==
    IF PUSH_THRESHOLD - k >= 30 THEN 0 ELSE (m \div Pow2(PUSH_THRESHOLD - k)) % 2

\* w & m as a number
AndMask(w, m) == Accumulate(0, [k \in 1..PUSH_THRESHOLD |-> w[k] * MaskBit(m, k)])

\* "self._buffer[0] & PAD_MASK"; MaskPadWide is a mask one bit too wide
MaskPadWide(w) == AndMask(w, 2 * PAD_MASK + 1)
MaskPad(w) == AndMask(w, PAD_MASK)

\* HX711_PIO.read_raw on the word read into the buffer
PIO_read_raw(w) == TwosComplement(MaskPad(w))

\* passes of gainloop for "set x, gain - 1": jmp x-- runs the body x + 1 times
GainLoopPasses(xInit) == xInit + 1

\* the test of the gain setter: "if gain > 1 or gain < 3"
GainAccepted(g) == g > 1 \/ g < 3

\* "sum(readings) // len(readings)"; FloorAverageTrunc rounds toward zero
FloorAverageTrunc(s, k) == IF s < 0 THEN -((-s) \div k) ELSE s \div k
FloorAverage(s, k) == s \div k

\* "if not self.offset"
OffsetMissing(o) == o = 0

\* "diff / added_weight", added_weight # 0
ScalarOf(r, o, w) == Rat(Abs(r - o), w)

\* ---------------------------------------------------------------------- state
VARIABLES
    backend,      \* "GPIO" (HX711_GPIO) or "PIO" (HX711_PIO)
    pc,           \* "new", "idle", "returned" (a call just ended), "failed"
    gain,         \* self._gain
    offset,       \* self.offset
    scalar,       \* self.scalar, a rational
    word,         \* the conversion result the device currently presents
    smGain,       \* gain the StateMachine program was assembled with (0: none)
    smBuilds,     \* calls of sm_init
    smDeinits,    \* calls of sm_deinit
    op,           \* the last client call
    arg,          \* its argument
    acq,          \* acquisitions it made
    sum,          \* read_average: sum(readings) of its last averaging loop
    n,            \* read_average: len(readings) of its last averaging loop
    first,        \* determine_scalar: the pre-read it dropped
    reading,      \* determine_scalar, read, read_raw: the reading it used
    lastPulses,   \* clock pulses of its latest acquisition cycle (0: none)
    outcome,      \* [status, value, raw] it ended with
    steady,       \* history: the device input did not change during the call
    established,  \* history: an offset was assigned or a tare completed
    stable,       \* history: since tare began, same device input and offset
    dsValid,      \* history: determine_scalar succeeded, no tare/assignment since
    dsO,          \* history: the offset determine_scalar used
    dsS           \* history: the scalar determine_scalar returned

calib == <<gain, offset, scalar>>
session == <<smGain, smBuilds, smDeinits>>
frame == <<op, arg, acq, sum, n, first, reading, lastPulses, outcome, steady>>
hist == <<established, stable, dsValid, dsO, dsS>>
callVars == <<backend, pc, calib, word, session, frame, hist>>

\* both backends on the same waveforms (SpecEquiv)
VARIABLES
    eqGain,       \* the gain both drivers were constructed with
    wave,         \* the waveform of the current cycle: [u, pad, trail]
    gpioTaken,    \* HX711_GPIO.read_raw has read the current waveform
    pioTaken,     \* HX711_PIO.read_raw has read the current waveform
    gpioOut,      \* the samples HX711_GPIO.read_raw returned, in order
    pioOut        \* the samples HX711_PIO.read_raw returned, in order

equivVars == <<eqGain, wave, gpioTaken, pioTaken, gpioOut, pioOut>>

\* the device's input selection, as the trailing pulses set it (SpecGain)
VARIABLES
    selected,       \* device: the selection the conversion it now presents was made under
    convUnder,      \* history: the selection behind what the last read_raw returned
    readsSinceGain  \* history: read_raw calls since gain was last assigned, up to 2
selVars == <<selected, convUnder, readsSinceGain>>

\* one acquisition at edge level (SpecLink)
VARIABLES
    lpc,          \* read_raw: "idle", "poll", "loop", "high", "low" (GPIO),
                  \*           "readinto" (PIO)
    pin_clk,      \* the clock line
    pin_data,     \* the data line
    raw_reading,  \* HX711_GPIO.read_raw: raw_reading
    i,            \* HX711_GPIO.read_raw: passes of the for loop made
    result,       \* what the last read_raw returned: <<>> or <<value>>
    resultFresh,  \* history: the word behind it was completed during the call
    polls,        \* HX711_GPIO.read_raw: sleeps of the ready wait, counted to MaxPolls
    pulses,       \* clock pulses issued since the cycle began
    u24,          \* history: the first HX_DATA_BITS levels sampled, MSB first
    wordIdx,      \* device: index into LinkWords of the conversion result
    edges,        \* device: rising clock edges seen since the result was ready
    smpc,         \* StateMachine: "off", "setup", "pad", "wait", "bit", "stall", "gain"
    x,            \* StateMachine: scratch register x
    y,            \* StateMachine: scratch register y
    osr,          \* StateMachine: output shift register
    isr,          \* StateMachine: input shift register
    isrCount,     \* StateMachine: input shift count
    isrFresh,     \* history: the full ISR was completed during a read_raw call
    rxfifo,       \* StateMachine: receive FIFO, entries [w, fresh]
    buffer        \* HX711_PIO: self._buffer[0]

gpioVars == <<raw_reading, i, polls, u24>>
smVars == <<smpc, x, y, osr, isr, isrCount, isrFresh, rxfifo>>
devVars == <<pin_data, wordIdx, edges>>
linkVars == <<lpc, pin_clk, devVars, gpioVars, result, resultFresh, pulses, smVars, buffer>>
linkFrozen == <<backend, pc, calib, session, frame, hist>>

Ok(v) == [status |-> "ok", value |-> v, raw |-> None]
Raised(e) == [status |-> e, value |-> None, raw |-> None]

\* --------------------------------------------------- acquisitions, call level
\* pulses read_raw (GPIO) or one pass of the program (PIO) issues per cycle
CyclePulses(b, g, smg) ==
    IF b = "GPIO" THEN HX_DATA_BITS + g
    ELSE HX_DATA_BITS + GainLoopPasses(smg - 1)

\* the value read_raw returns for conversion result u when the data line idles
\* at lvl outside the data bits
ReadRawValue(b, g, u, lvl) ==
    IF b = "GPIO"
    THEN GPIO_read_raw(WordBits(u) \o [k \in 1..g |-> lvl], g)
    ELSE PIO_read_raw(PioWord(lvl, u))

\* k successive read_raw(): the device presents `word`, read as r1, for the
\* first j of them and another result, read as r2, from then on
Acquisitions(k, j, r1, r2) == [q \in 1..k |-> IF q <= j THEN r1 ELSE r2]

\* ReadRawValue over the inputs of the call level
ReadTable ==
    {<<b, g, u, lvl, ReadRawValue(b, g, u, lvl)>> :
        b \in Backends, g \in GainInputs, u \in Words, lvl \in {0, 1}}

ReadLookup(b, g, u, lvl) ==
    (CHOOSE t \in ReadTable : t[1] = b /\ t[2] = g /\ t[3] = u /\ t[4] = lvl)[5]

\* read_raw() of the present result and of the result w2 that may follow it
Readable(g, w2, lvl) ==
    {<<ReadLookup(backend, g, word, lvl), ReadLookup(backend, g, w2, lvl)>>}

RECURSIVE SumSeq(_)
SumSeq(rs) == IF rs = <<>> THEN 0 ELSE Head(rs) + SumSeq(Tail(rs))

LastOf(rs, k) == SubSeq(rs, Len(rs) - k + 1, Len(rs))

\* what the device presents after a call that made k acquisitions
WordAfter(k, j, w2) == IF j < k THEN w2 ELSE word
Unchanged(k, j, w2) == WordAfter(k, j, w2) = word

InitCall ==
    /\ backend \in Backends
    /\ pc = "new"
    /\ gain = None /\ offset = None /\ scalar = None
    /\ word \in Words
    /\ smGain = 0 /\ smBuilds = 0 /\ smDeinits = 0
    /\ op = None /\ arg = None
    /\ acq = 0 /\ sum = 0 /\ n = 0
    /\ first = None /\ reading = None
    /\ lastPulses = 0
    /\ outcome = Ok(None)
    /\ steady = TRUE
    /\ established = FALSE /\ stable = FALSE
    /\ dsValid = FALSE /\ dsO = None /\ dsS = None

\* tare(pre_read) on the readings rs of its acquisitions: the first
\* TARE_PRE_COUNT are the dropped read_average(5), the rest give the offset
\* TareOffsetAll averages the dropped readings in as well
TareOffsetAll(rs) == FloorAverage(SumSeq(rs), Len(rs))
TareOffset(rs) ==
    LET readings == LastOf(rs, AVERAGE_DEFAULT)
    IN  FloorAverage(SumSeq(readings), Len(readings))

TareReads(pre) == IF pre THEN TARE_PRE_COUNT + AVERAGE_DEFAULT ELSE AVERAGE_DEFAULT

\* HX711.__init__(gain, offset, scalar, tare) after the backend's own set-up,
\* which made k0 acquisitions: the three assignments, then tare() when asked
BaseInit(g, o, s, t, k0, j, w2, lvl) ==
    LET k == k0 + (IF t THEN TareReads(TRUE) ELSE 0)
    IN  /\ j <= k
        /\ \E r \in Readable(g, w2, lvl) : \E rs \in {Acquisitions(k, j, r[1], r[2])} :
             /\ offset' = IF t THEN TareOffset(rs) ELSE o
             /\ sum' = IF t THEN SumSeq(LastOf(rs, AVERAGE_DEFAULT)) ELSE 0
        /\ gain' = g
        /\ scalar' = s
        /\ established' = (t \/ o # 0)
        /\ stable' = (t /\ Unchanged(k, j, w2))
        /\ steady' = Unchanged(k, j, w2)
        /\ word' = WordAfter(k, j, w2)
        /\ op' = "init" /\ arg' = t
        /\ acq' = k
        /\ n' = IF t THEN AVERAGE_DEFAULT ELSE 0
        /\ first' = None /\ reading' = None
        /\ pc' = "returned"
        /\ outcome' = Ok(None)

\* HX711_GPIO.__init__: pins, self.gain = gain, one read_raw(), super().__init__
GPIO_init(g, o, s, t, j, w2, lvl) ==
    /\ pc = "new" /\ backend = "GPIO"
    /\ IF GainAccepted(g)
       THEN /\ BaseInit(g, o, s, t, 1, j, w2, lvl)
            /\ lastPulses' = CyclePulses("GPIO", g, 0)
       ELSE /\ pc' = "failed" /\ outcome' = Raised("ValueError")
            /\ UNCHANGED <<calib, word, op, arg, acq, sum, n, first, reading,
                           lastPulses, steady, established, stable>>
    /\ UNCHANGED <<equivVars, linkVars, backend, session, dsValid, dsO, dsS>>

\* HX711_PIO.__init__: sm_init(gain), super().__init__; "set x, gain - 1" needs
\* gain >= 1 to assemble
PIO_init(g, o, s, t, j, w2, lvl) ==
    /\ pc = "new" /\ backend = "PIO"
    /\ g >= 1
    /\ smGain' = g /\ smBuilds' = smBuilds + 1
    /\ IF GainAccepted(g)
       THEN /\ BaseInit(g, o, s, t, 0, j, w2, lvl)
            /\ lastPulses' = IF t THEN CyclePulses("PIO", g, g) ELSE 0
       ELSE /\ pc' = "failed" /\ outcome' = Raised("ValueError")
            /\ UNCHANGED <<calib, word, op, arg, acq, sum, n, first, reading,
                           lastPulses, steady, established, stable>>
    /\ UNCHANGED <<equivVars, linkVars, backend, smDeinits, dsValid, dsO, dsS>>

Construct ==
    /\ pc = "new"
    /\ \E g \in GainInputs, o \in OffsetInputs, s \in ScalarInputs, t \in BOOLEAN,
          j \in 0..(1 + TareReads(TRUE)), w2 \in Words, lvl \in {0, 1} :
         \/ GPIO_init(g, o, s, t, j, w2, lvl)
         \/ PIO_init(g, o, s, t, j, w2, lvl)
    /\ UNCHANGED selVars

\* ------------------------------------------------------------ attribute writes
CanCall == pc = "idle"

\* a client call runs to its end: it returns or raises
Fresh(name, a) ==
    /\ op' = name /\ arg' = a
    /\ pc' = "returned"

NoReads ==
    /\ acq' = 0 /\ sum' = 0 /\ n' = 0
    /\ first' = None /\ reading' = None
    /\ lastPulses' = 0
    /\ steady' = TRUE

\* the gain setter of HX711; neither backend overrides it
SetGain(g) ==
    /\ CanCall
    /\ Fresh("gain", g) /\ NoReads
    /\ IF GainAccepted(g)
       THEN /\ gain' = g
            /\ outcome' = Ok(None)
       ELSE /\ outcome' = Raised("ValueError")
            /\ UNCHANGED gain
    /\ UNCHANGED <<equivVars, linkVars, backend, offset, scalar, word, session, hist>>

\* hx711.offset = o
SetOffset(o) ==
    /\ CanCall
    /\ Fresh("offset", o) /\ NoReads
    /\ offset' = o
    /\ established' = TRUE
    /\ dsValid' = FALSE /\ dsO' = None /\ dsS' = None
    /\ stable' = FALSE
    /\ outcome' = Ok(None)
    /\ UNCHANGED <<selVars, equivVars, linkVars, backend, gain, scalar, word, session>>

\* hx711.scalar = s
SetScalar(s) ==
    /\ CanCall
    /\ Fresh("scalar", s) /\ NoReads
    /\ scalar' = s
    /\ dsValid' = FALSE /\ dsO' = None /\ dsS' = None
    /\ outcome' = Ok(None)
    /\ UNCHANGED <<selVars, equivVars, linkVars, backend, gain, offset, word, session, established, stable>>

\* ---------------------------------------------------------------- client calls
\* the k acquisitions of a call and what they leave behind
Reads(k, j, w2) ==
    /\ j <= k
    /\ acq' = k
    /\ word' = WordAfter(k, j, w2)
    /\ stable' = (stable /\ Unchanged(k, j, w2))
    /\ steady' = Unchanged(k, j, w2)
    /\ lastPulses' = IF k > 0 THEN CyclePulses(backend, gain, smGain) ELSE 0

\* tare(pre_read): "if pre_read: self.read_average(5)", then
\* "self.offset = self.read_average()"
Tare(pre, j, w2, lvl) ==
    LET k == TareReads(pre)
    IN  /\ CanCall
        /\ Fresh("tare", pre)
        /\ j <= k
        /\ \E r \in Readable(gain, w2, lvl) : \E rs \in {Acquisitions(k, j, r[1], r[2])} :
             /\ offset' = TareOffset(rs)
             /\ sum' = SumSeq(LastOf(rs, AVERAGE_DEFAULT))
        /\ acq' = k
        /\ word' = WordAfter(k, j, w2)
        /\ stable' = Unchanged(k, j, w2)
        /\ steady' = Unchanged(k, j, w2)
        /\ lastPulses' = CyclePulses(backend, gain, smGain)
        /\ n' = AVERAGE_DEFAULT
        /\ first' = None /\ reading' = None
        /\ established' = TRUE
        /\ dsValid' = FALSE /\ dsO' = None /\ dsS' = None
        /\ outcome' = Ok(None)
        /\ UNCHANGED <<selVars, equivVars, linkVars, backend, gain, scalar, session>>

\* determine_scalar(added_weight): the offset test, a dropped read_raw(), the
\* reading, "diff = abs(reading - self.offset)", the division, the store
DetermineScalar(w, j, w2, lvl) ==
    /\ CanCall
    /\ \E r \in Readable(gain, w2, lvl) : \E rs \in {Acquisitions(2, j, r[1], r[2])} :
        /\ Fresh("determine_scalar", w)
        /\ sum' = 0 /\ n' = 0
        /\ IF OffsetMissing(offset)
           THEN /\ j = 2
                /\ outcome' = Raised("ValueError")
                /\ acq' = 0 /\ lastPulses' = 0
                /\ steady' = TRUE
                /\ first' = None /\ reading' = None
                /\ dsValid' = FALSE /\ dsO' = None /\ dsS' = None
                /\ UNCHANGED <<scalar, word, stable>>
           ELSE /\ Reads(2, j, w2)
                /\ first' = rs[1] /\ reading' = rs[2]
                /\ IF w = 0
                   THEN /\ outcome' = Raised("ZeroDivisionError")
                        /\ dsValid' = FALSE /\ dsO' = None /\ dsS' = None
                        /\ UNCHANGED scalar
                   ELSE /\ scalar' = ScalarOf(rs[2], offset, w)
                        /\ outcome' = Ok(scalar')
                        /\ dsValid' = TRUE /\ dsO' = offset /\ dsS' = scalar'
        /\ UNCHANGED <<selVars, equivVars, linkVars, backend, gain, offset, session, established>>

\* "return sum(readings) // len(readings)": no readings, a division by zero;
\* AverageOrZero returns 0 for them
AverageOrZero(s, k) == IF k = 0 THEN Ok(0) ELSE Ok(FloorAverage(s, k))
AverageOutcome(s, k) ==
    IF k = 0 THEN Raised("ZeroDivisionError") ELSE Ok(FloorAverage(s, k))

\* read_average(count): "for _ in range(count)" appends read_raw(), then
\* "return sum(readings) // len(readings)"
ReadAverage(c, j, w2, lvl) ==
    /\ CanCall
    /\ \E r \in Readable(gain, w2, lvl) : \E readings \in {Acquisitions(c, j, r[1], r[2])} :
        /\ Fresh("read_average", c)
        /\ Reads(c, j, w2)
        /\ sum' = SumSeq(readings)
        /\ n' = Len(readings)
        /\ first' = None /\ reading' = None
        /\ outcome' = AverageOutcome(SumSeq(readings), Len(readings))
        /\ UNCHANGED <<selVars, equivVars, linkVars, backend, calib, session, established, dsValid, dsO, dsS>>

\* "(raw - self.offset) / self.scalar"; a zero scalar raises
ReadValue(raw, o, s) ==
    IF s[1] = 0 THEN [Raised("ZeroDivisionError") EXCEPT !.raw = raw]
    ELSE [Ok(RatDiv(raw - o, s)) EXCEPT !.raw = raw]

\* read(average_count): read_average(average_count) when > 1, else read_raw()
Read(c, j, w2, lvl) ==
    /\ CanCall
    /\ \E k \in {IF c > 1 THEN c ELSE 1} :
       \E r \in Readable(gain, w2, lvl) : \E rs \in {Acquisitions(k, j, r[1], r[2])} :
       \E raw \in {IF c > 1 THEN FloorAverage(SumSeq(rs), Len(rs)) ELSE rs[1]} :
        /\ Fresh("read", c)
        /\ Reads(k, j, w2)
        /\ sum' = IF c > 1 THEN SumSeq(rs) ELSE 0
        /\ n' = IF c > 1 THEN Len(rs) ELSE 0
        /\ first' = None
        /\ reading' = IF c > 1 THEN None ELSE rs[1]
        /\ outcome' = ReadValue(raw, offset, scalar)
        /\ UNCHANGED <<selVars, equivVars, linkVars, backend, calib, session, established, dsValid, dsO, dsS>>

\* ReadRawStoring is a read_raw that keeps its reading as the offset
ReadRawStoring(j, w2, lvl) ==
    /\ CanCall
    /\ \E r \in Readable(gain, w2, lvl) : \E rs \in {Acquisitions(1, j, r[1], r[2])} :
        /\ Fresh("read_raw", None)
        /\ Reads(1, j, w2)
        /\ sum' = 0 /\ n' = 0
        /\ first' = None /\ reading' = rs[1]
        /\ outcome' = Ok(rs[1])
        /\ offset' = rs[1]
        /\ UNCHANGED <<equivVars, linkVars, backend, gain, scalar, session, established,
                       dsValid, dsO, dsS>>

\* read_raw() called by the client
ReadRaw(j, w2, lvl) ==
    /\ CanCall
    /\ \E r \in Readable(gain, w2, lvl) : \E rs \in {Acquisitions(1, j, r[1], r[2])} :
        /\ Fresh("read_raw", None)
        /\ Reads(1, j, w2)
        /\ sum' = 0 /\ n' = 0
        /\ first' = None /\ reading' = rs[1]
        /\ outcome' = Ok(rs[1])
        /\ UNCHANGED <<equivVars, linkVars, backend, calib, session, established, dsValid, dsO, dsS>>

\* the client takes the result; the locals of the call are gone
Return ==
    /\ pc = "returned"
    /\ pc' = "idle"
    /\ op' = None /\ arg' = None
    /\ NoReads
    /\ outcome' = Ok(None)
    /\ UNCHANGED <<selVars, equivVars, linkVars, backend, calib, word, session, hist>>

\* where the device input may change during k acquisitions: before read j + 1
\* it becomes w2 (j = k: it does not change)
Changes(k) == {<<k, word>>} \cup {<<j, w2>> : j \in 0..(k - 1), w2 \in Words \ {word}}

\* the level of the data line outside the data bits of a conversion
IdleLevels == {0, 1}

\* the calls a client makes on a constructed driver
CallSetGain == CanCall /\ (\E g \in GainInputs : SetGain(g)) /\ UNCHANGED selVars
CallSetOffset == CanCall /\ \E o \in OffsetInputs : SetOffset(o)
CallSetScalar == CanCall /\ \E s \in ScalarInputs : SetScalar(s)
CallTare ==
    CanCall /\ \E pre \in BOOLEAN, lvl \in IdleLevels :
                 \E ch \in Changes(TareReads(pre)) : Tare(pre, ch[1], ch[2], lvl)
CallDetermineScalar ==
    CanCall /\ \E w \in WeightInputs, lvl \in IdleLevels :
                 \E ch \in Changes(2) : DetermineScalar(w, ch[1], ch[2], lvl)
CallReadAverage ==
    CanCall /\ \E c \in CountInputs, lvl \in IdleLevels :
                 \E ch \in Changes(c) : ReadAverage(c, ch[1], ch[2], lvl)
CallRead ==
    CanCall /\ \E c \in CountInputs, lvl \in IdleLevels :
                 \E ch \in Changes(IF c > 1 THEN c ELSE 1) : Read(c, ch[1], ch[2], lvl)
CallReadRaw ==
    /\ CanCall
    /\ \E lvl \in IdleLevels : \E ch \in Changes(1) : ReadRaw(ch[1], ch[2], lvl)
    /\ UNCHANGED selVars

\* ------------------------------------- the device's selection and HX711_GPIO
SelOff == selected = 0 /\ convUnder = 0 /\ readsSinceGain = 0

\* what a train of p clock pulses selects for the next conversion: its
\* trailing pulses when they are 1, 2 or 3, anything the device has otherwise
Selects(p) ==
    IF p - HX_DATA_BITS \in Gains THEN {p - HX_DATA_BITS} ELSE Gains

\* one more read_raw since the gain was assigned
OneMoreRead(k) == IF k < 2 THEN k + 1 ELSE 2

\* the device before HX711_GPIO is constructed: some selection is in force
InitGain ==
    /\ InitCall /\ backend = "GPIO"
    /\ selected \in Gains /\ convUnder = 0 /\ readsSinceGain = 0

\* HX711_GPIO.__init__: "self.gain = gain", then read_raw() and those of tare;
\* the last train selects for the conversion presented next
GainConstruct ==
    /\ pc = "new"
    /\ \E g \in GainInputs, o \in OffsetInputs, s \in ScalarInputs, t \in BOOLEAN,
          j \in 0..(1 + TareReads(TRUE)), w2 \in Words, lvl \in {0, 1} :
         /\ GPIO_init(g, o, s, t, j, w2, lvl)
         /\ IF GainAccepted(g)
            THEN /\ selected' \in Selects(CyclePulses("GPIO", g, 0))
                 /\ convUnder' = IF t THEN selected' ELSE selected
                 /\ readsSinceGain' = IF t THEN 2 ELSE 1
            ELSE UNCHANGED selVars

\* the gain setter: no pulse goes out, the device keeps its selection
GainSet ==
    /\ CanCall
    /\ \E g \in GainInputs :
         /\ SetGain(g)
         /\ readsSinceGain' = IF GainAccepted(g) THEN 0 ELSE readsSinceGain
    /\ UNCHANGED <<selected, convUnder>>

\* read_raw(): it returns the conversion the device presents and its pulse
\* train selects for the next one
GainRead ==
    /\ CanCall
    /\ \E lvl \in IdleLevels : \E ch \in Changes(1) : ReadRaw(ch[1], ch[2], lvl)
    /\ convUnder' = selected
    /\ selected' \in Selects(CyclePulses(backend, gain, smGain))
    /\ readsSinceGain' = OneMoreRead(readsSinceGain)

\* ------------------------------------------- both backends on the same waveforms
\* levels of the data line while the program takes its pad samples
PadPatterns == {0, 170, 255}

NoWave == [u |-> 0, pad |-> 0, trail |-> 0]

EquivOff ==
    /\ eqGain = 0
    /\ wave = NoWave
    /\ gpioTaken = TRUE /\ pioTaken = TRUE
    /\ gpioOut = <<>> /\ pioOut = <<>>

InitEquiv ==
    /\ eqGain \in Gains
    /\ wave = NoWave
    /\ gpioTaken = TRUE /\ pioTaken = TRUE
    /\ gpioOut = <<>> /\ pioOut = <<>>

\* the device starts a cycle: conversion result u on the data bits, the line at
\* the levels pad before it is ready and trail during the gain pulses
Inject(u, pad, trail) ==
    /\ gpioTaken /\ pioTaken
    /\ Len(gpioOut) < MaxSeq
    /\ wave' = [u |-> u, pad |-> pad, trail |-> trail]
    /\ gpioTaken' = FALSE /\ pioTaken' = FALSE
    /\ UNCHANGED <<selVars, callVars, linkVars, eqGain, gpioOut, pioOut>>

\* HX711_GPIO.read_raw on the cycle: HX_DATA_BITS + gain samples
EquivGpioRead ==
    /\ ~gpioTaken
    /\ gpioOut' = Append(gpioOut,
          GPIO_read_raw(WordBits(wave.u) \o BitsOf(wave.trail, eqGain), eqGain))
    /\ gpioTaken' = TRUE
    /\ UNCHANGED <<selVars, callVars, linkVars, eqGain, wave, pioTaken, pioOut>>

\* HX711_PIO.read_raw on the cycle: the program shifts PAD_BITS pad samples and
\* HX_DATA_BITS data samples into the word it pushes
EquivPioRead ==
    /\ ~pioTaken
    /\ pioOut' = Append(pioOut,
          PIO_read_raw(IsrShiftAll(IsrEmpty,
                                   BitsOf(wave.pad, PAD_BITS) \o WordBits(wave.u))))
    /\ pioTaken' = TRUE
    /\ UNCHANGED <<selVars, callVars, linkVars, eqGain, wave, gpioTaken, gpioOut>>

InjectAny ==
    \E k \in 1..Len(LinkWords), pad \in PadPatterns, trail \in 0..(Pow2(eqGain) - 1) :
        Inject(LinkWords[k], pad, trail)

\* ------------------------------------------------- one acquisition, edge level
LinkOff ==
    /\ lpc = "off" /\ pin_clk = 0 /\ pin_data = 1
    /\ raw_reading = 0 /\ i = 0 /\ result = <<>> /\ polls = 0
    /\ resultFresh = TRUE /\ isrFresh = TRUE
    /\ pulses = 0 /\ u24 = 0
    /\ wordIdx = 1 /\ edges = 0
    /\ smpc = "off" /\ x = 0 /\ y = 0 /\ osr = 0
    /\ isr = IsrEmpty /\ isrCount = 0 /\ rxfifo = <<>>
    /\ buffer = IsrEmpty

\* a constructed driver and a device that is converting: the clock is low, the
\* data line high; the PIO program has just been started by sm_init
InitLink ==
    /\ backend \in Backends
    /\ pc = "link"
    /\ gain \in Gains /\ offset = 0 /\ scalar = <<1, 1>>
    /\ wordIdx \in 1..Len(LinkWords)
    /\ word = LinkWords[wordIdx]
    /\ smGain = (IF backend = "PIO" THEN gain ELSE 0)
    /\ smBuilds = (IF backend = "PIO" THEN 1 ELSE 0) /\ smDeinits = 0
    /\ op = None /\ arg = None
    /\ acq = 0 /\ sum = 0 /\ n = 0
    /\ first = None /\ reading = None
    /\ lastPulses = 0
    /\ outcome = Ok(None)
    /\ steady = TRUE
    /\ established = FALSE /\ stable = FALSE
    /\ dsValid = FALSE /\ dsO = None /\ dsS = None
    /\ lpc = "idle" /\ pin_clk = 0 /\ pin_data = 1
    /\ raw_reading = 0 /\ i = 0 /\ result = <<>> /\ polls = 0
    /\ resultFresh = TRUE /\ isrFresh = TRUE
    /\ pulses = 0 /\ u24 = 0
    /\ edges = HX_DATA_BITS + 1
    /\ smpc = (IF backend = "PIO" THEN "setup" ELSE "off")
    /\ x = 0 /\ y = 0 /\ osr = 0
    /\ isr = IsrEmpty /\ isrCount = 0 /\ rxfifo = <<>>
    /\ buffer = IsrEmpty

\* ---- the device
\* the host is inside a pulse train, or within the few instructions by which
\* the program gets from one train to the wait for the next
HostPulsing ==
    \/ lpc \in {"loop", "high", "low"}
    \/ smpc \in {"bit", "stall", "gain"}
    \/ smpc \in {"setup", "pad"} /\ pulses > 0

\* a rising clock edge at the device: edge k <= HX_DATA_BITS puts bit k of the
\* result on the data line, MSB first; the next edge releases the line high
DeviceEdge ==
    /\ edges' = edges + 1
    /\ pin_data' = IF edges < HX_DATA_BITS THEN WordBits(word)[edges + 1] ELSE 1
    /\ UNCHANGED <<wordIdx, word>>

\* a conversion ends once the previous result has been clocked out and the
\* clock rests: the next result is ready, the data line goes low
DeviceReady ==
    /\ edges > HX_DATA_BITS
    /\ ~HostPulsing
    /\ wordIdx' = (wordIdx % Len(LinkWords)) + 1
    /\ word' = LinkWords[wordIdx']
    /\ edges' = 0
    /\ pin_data' = 0
    /\ UNCHANGED <<selVars, equivVars, linkFrozen, lpc, pin_clk, gpioVars, result, resultFresh, pulses, smVars, buffer>>

\* ---- HX711_GPIO.read_raw
GpioCall ==
    /\ backend = "GPIO" /\ lpc = "idle"
    /\ lpc' = "poll"
    /\ polls' = 0
    /\ UNCHANGED <<selVars, equivVars, linkFrozen, word, pin_clk, devVars, raw_reading, i, u24, result,
                   resultFresh, pulses, smVars, buffer>>

\* "while self._pin_data.value:", the line still high; polls counts the
\* failed tests up to MaxPolls, the loop itself has no bound
GpioPollBusy ==
    /\ lpc = "poll" /\ pin_data = 1
    /\ polls' = IF polls < MaxPolls THEN polls + 1 ELSE polls
    /\ lpc' = "sleep"
    /\ UNCHANGED <<selVars, equivVars, linkFrozen, word, pin_clk, devVars, raw_reading, i, u24,
                   result, resultFresh, pulses, smVars, buffer>>

\* "time.sleep(0.01)" is over: back to the test of the while
GpioSleep ==
    /\ lpc = "sleep"
    /\ lpc' = "poll"
    /\ UNCHANGED <<selVars, equivVars, linkFrozen, word, pin_clk, devVars, gpioVars,
                   result, resultFresh, pulses, smVars, buffer>>

\* GpioPollSkip starts the for loop without looking at the line
GpioPollSkip ==
    /\ lpc = "poll"
    /\ raw_reading' = 0 /\ i' = 0 /\ u24' = 0
    /\ pulses' = 0
    /\ lpc' = "loop"
    /\ UNCHANGED <<selVars, equivVars, linkFrozen, word, pin_clk, devVars, polls, result, resultFresh, smVars, buffer>>

\* the line is low: "raw_reading = 0", the for loop begins
GpioPollReady ==
    /\ lpc = "poll" /\ pin_data = 0
    /\ raw_reading' = 0 /\ i' = 0 /\ u24' = 0
    /\ pulses' = 0
    /\ lpc' = "loop"
    /\ UNCHANGED <<selVars, equivVars, linkFrozen, word, pin_clk, devVars, polls, result, resultFresh, smVars, buffer>>

\* "self._pin_clk.value = True"
GpioClkHigh ==
    /\ lpc = "loop" /\ i < HX_DATA_BITS + gain
    /\ pin_clk' = 1
    /\ DeviceEdge
    /\ lpc' = "high"
    /\ UNCHANGED <<selVars, equivVars, linkFrozen, gpioVars, result, resultFresh, pulses, smVars, buffer>>

\* "self._pin_clk.value = False"
GpioClkLow ==
    /\ lpc = "high"
    /\ pin_clk' = 0
    /\ pulses' = pulses + 1
    /\ lpc' = "low"
    /\ UNCHANGED <<selVars, equivVars, linkFrozen, word, devVars, gpioVars, result, resultFresh, smVars, buffer>>

\* "raw_reading = raw_reading << 1 | self._pin_data.value"; what the line shows
\* during a gain pulse is left open
GpioSample ==
    /\ lpc = "low"
    /\ \E bit \in (IF i < HX_DATA_BITS THEN {pin_data} ELSE {0, 1}) :
         /\ raw_reading' = ShiftOrAsIs(raw_reading, bit)
         /\ u24' = IF i < HX_DATA_BITS THEN 2 * u24 + bit ELSE u24
    /\ i' = i + 1
    /\ lpc' = "loop"
    /\ UNCHANGED <<selVars, equivVars, linkFrozen, word, pin_clk, devVars, polls, result, resultFresh, pulses,
                   smVars, buffer>>

\* the loop is over: ">> self.gain", the two's complement, return
GpioReturn ==
    /\ lpc = "loop" /\ i = HX_DATA_BITS + gain
    /\ result' = <<TwosComplement(PopGainBits(raw_reading, gain))>>
    /\ resultFresh' = TRUE
    /\ lpc' = "idle"
    /\ UNCHANGED <<selVars, equivVars, linkFrozen, word, pin_clk, devVars, gpioVars, pulses,
                   smVars, buffer>>

\* ---- the StateMachine running HX711_READ_CODE
\* autopush: at push_threshold the ISR goes to the receive FIFO and is cleared
FifoFull == Len(rxfifo) >= RX_FIFO_DEPTH

\* "jmp y-- bitloop": back to bitloop while y is not 0, on to gainloop after
AfterBit ==
    IF y # 0 THEN smpc' = "bit" /\ y' = y - 1
    ELSE smpc' = "gain" /\ y' = -1

\* "set x, gain - 1", "mov osr, x", "set x, 7", "set y, 23"
SmSetup ==
    /\ smpc = "setup"
    /\ osr' = smGain - 1
    /\ x' = PAD_BITS - 1
    /\ y' = HX_DATA_BITS - 1
    /\ smpc' = "pad"
    /\ UNCHANGED <<selVars, equivVars, linkFrozen, word, lpc, pin_clk, devVars, gpioVars, result, resultFresh, pulses,
                   isr, isrCount, isrFresh, rxfifo, buffer>>

\* padloop: "in pins, 1", "jmp x-- padloop", x + 1 passes
SmPad ==
    /\ smpc = "pad"
    /\ isr' = IsrShiftAll(isr, [k \in 1..(x + 1) |-> pin_data])
    /\ isrCount' = isrCount + x + 1
    /\ x' = -1
    /\ smpc' = "wait"
    /\ UNCHANGED <<selVars, equivVars, linkFrozen, word, lpc, pin_clk, devVars, gpioVars, result, resultFresh, pulses,
                   y, osr, isrFresh, rxfifo, buffer>>

\* "wait 0 pin 0", "mov x, osr"
SmWait ==
    /\ smpc = "wait" /\ pin_data = 0
    /\ x' = osr
    /\ pulses' = 0
    /\ smpc' = "bit"
    /\ UNCHANGED <<selVars, equivVars, linkFrozen, word, lpc, pin_clk, devVars, gpioVars, result, resultFresh,
                   y, osr, isr, isrCount, isrFresh, rxfifo, buffer>>

\* bitloop: "set pins, 1", "set pins, 0", "in pins, 1", "jmp y-- bitloop"; the
\* in that fills the ISR pushes it, or stalls on a full FIFO
SmBit ==
    /\ smpc = "bit"
    /\ DeviceEdge
    /\ pulses' = pulses + 1
    /\ LET shifted == IsrShiftIn(isr, pin_data')
       IN  IF isrCount + 1 < PUSH_THRESHOLD
           THEN /\ isr' = shifted /\ isrCount' = isrCount + 1
                /\ AfterBit
                /\ UNCHANGED <<isrFresh, rxfifo>>
           ELSE IF FifoFull
           THEN /\ isr' = shifted /\ isrCount' = isrCount + 1
                /\ isrFresh' = (lpc = "readinto")
                /\ smpc' = "stall"
                /\ UNCHANGED <<y, rxfifo>>
           ELSE /\ rxfifo' = Append(rxfifo, [w |-> shifted, fresh |-> lpc = "readinto"])
                /\ isr' = IsrEmpty /\ isrCount' = 0
                /\ isrFresh' = TRUE
                /\ AfterBit
    /\ UNCHANGED <<selVars, equivVars, linkFrozen, lpc, pin_clk, gpioVars, result, resultFresh, x, osr, buffer>>

\* the stalled in completes once the FIFO has room
SmPush ==
    /\ smpc = "stall" /\ ~FifoFull
    /\ rxfifo' = Append(rxfifo, [w |-> isr, fresh |-> isrFresh])
    /\ isr' = IsrEmpty /\ isrCount' = 0
    /\ isrFresh' = TRUE
    /\ AfterBit
    /\ UNCHANGED <<selVars, equivVars, linkFrozen, word, lpc, pin_clk, devVars, gpioVars, result, resultFresh, pulses,
                   x, osr, buffer>>

\* gainloop: "set pins, 1", "set pins, 0", "jmp x-- gainloop"; after the last
\* pass the program wraps to its first instruction
SmGain ==
    /\ smpc = "gain"
    /\ DeviceEdge
    /\ pulses' = pulses + 1
    /\ IF x # 0 THEN smpc' = "gain" /\ x' = x - 1
       ELSE smpc' = "setup" /\ x' = -1
    /\ UNCHANGED <<selVars, equivVars, linkFrozen, lpc, pin_clk, gpioVars, result, resultFresh, y, osr, isr, isrCount,
                   isrFresh, rxfifo, buffer>>

\* ---- HX711_PIO.read_raw
\* "self._sm.clear_rxfifo()"
PioClear ==
    /\ backend = "PIO" /\ lpc = "idle"
    /\ rxfifo' = <<>>
    /\ lpc' = "readinto"
    /\ UNCHANGED <<selVars, equivVars, linkFrozen, word, pin_clk, devVars, gpioVars, result, resultFresh, pulses,
                   smpc, x, y, osr, isr, isrCount, isrFresh, buffer>>

\* "self._sm.readinto(self._buffer)" returns with a word, then the mask, the
\* two's complement, return
PioReadinto ==
    /\ lpc = "readinto" /\ rxfifo # <<>>
    /\ buffer' = Head(rxfifo).w
    /\ rxfifo' = Tail(rxfifo)
    /\ result' = <<PIO_read_raw(buffer')>>
    /\ resultFresh' = Head(rxfifo).fresh
    /\ lpc' = "idle"
    /\ UNCHANGED <<selVars, equivVars, linkFrozen, word, pin_clk, devVars, gpioVars, pulses,
                   smpc, x, y, osr, isr, isrCount, isrFresh>>

\* ---------------------------------------------------------------- specifications
CallOff ==
    /\ backend = "GPIO"
    /\ pc = "off"
    /\ gain = None /\ offset = None /\ scalar = None
    /\ word = 0
    /\ smGain = 0 /\ smBuilds = 0 /\ smDeinits = 0
    /\ op = None /\ arg = None
    /\ acq = 0 /\ sum = 0 /\ n = 0
    /\ first = None /\ reading = None
    /\ lastPulses = 0
    /\ outcome = Ok(None)
    /\ steady = TRUE
    /\ established = FALSE /\ stable = FALSE
    /\ dsValid = FALSE /\ dsO = None /\ dsS = None

vars == <<callVars, equivVars, linkVars, selVars>>

\* the driver at call level
Init == InitCall /\ EquivOff /\ LinkOff /\ SelOff
Next ==
    \/ Construct
    \/ CallSetGain
    \/ CallSetOffset
    \/ CallSetScalar
    \/ CallTare
    \/ CallDetermineScalar
    \/ CallReadAverage
    \/ CallRead
    \/ CallReadRaw
    \/ Return
Spec == Init /\ [][Next]_vars

\* both read_raw implementations on the same waveforms
InitE == InitEquiv /\ CallOff /\ LinkOff /\ SelOff
NextE ==
    \/ InjectAny
    \/ EquivGpioRead
    \/ EquivPioRead
SpecEquiv == InitE /\ [][NextE]_vars

\* one driver and the device at edge level
InitL == InitLink /\ EquivOff /\ SelOff
NextL ==
    \/ DeviceReady
    \/ GpioCall
    \/ GpioPollBusy
    \/ GpioSleep
    \/ GpioPollReady
    \/ GpioClkHigh
    \/ GpioClkLow
    \/ GpioSample
    \/ GpioReturn
    \/ SmSetup
    \/ SmPad
    \/ SmWait
    \/ SmBit
    \/ SmPush
    \/ SmGain
    \/ PioClear
    \/ PioReadinto
SpecLink == InitL /\ [][NextL]_vars

\* HX711_GPIO, its gain setter and read_raw, and the selection of the device
InitS == InitGain /\ EquivOff /\ LinkOff
NextS ==
    \/ GainConstruct
    \/ GainSet
    \/ GainRead
    \/ Return
SpecGain == InitS /\ [][NextS]_vars

\* HX711_GPIO.read_raw alone, with the interpreter running on: every step of a
\* call in progress is eventually taken.  Nothing obliges the client to call
\* nor the device to finish a conversion.
InitG == InitL /\ backend = "GPIO"
GpioRun ==
    \/ GpioPollBusy
    \/ GpioSleep
    \/ GpioPollReady
    \/ GpioClkHigh
    \/ GpioClkLow
    \/ GpioSample
    \/ GpioReturn
NextG ==
    \/ DeviceReady
    \/ GpioCall
    \/ GpioRun
SpecGpioLive == InitG /\ [][NextG]_vars /\ WF_vars(GpioRun)

\* ================================================================ properties
Constructed == pc \in {"idle", "returned"}
Returned(name) == pc = "returned" /\ op = name

\* decode of section 4.1: the signed value of a 24-bit conversion result
Signed24(u) == IF u > 8388607 THEN u - 16777216 ELSE u

\* C1: gain is assigned only when the value is in {1,2,3}, any other value
\* raises and leaves the stored gain alone, so the stored gain of a constructed
\* driver is always 1, 2 or 3.
C1_GainEnumerated ==
    /\ Constructed => gain \in Gains
    /\ Returned("gain") => (outcome.status = "ok" <=> arg \in Gains)

\* C5: the stored scalar of a constructed driver is never zero, so read()
\* never ends in a division by zero.
C5_ScalarNonzero ==
    /\ Constructed => scalar[1] # 0
    /\ Returned("read") => outcome.status # "ZeroDivisionError"

\* C6: determine_scalar raises the precondition error exactly when no offset
\* has been established (no tare completed, no offset assigned), whatever the
\* value of an established offset.
C6_PreconditionIffNoOffset ==
    (Returned("determine_scalar") /\ arg # 0) =>
        (outcome.status = "ValueError" <=> ~established)

\* C7: a successful determine_scalar(w) makes two acquisitions, stores and
\* returns |R - O| / w for the second reading R, and every read() after it
\* returns (raw - O) / scalar with that scalar until tare or determine_scalar
\* runs again.
C7_ScalarDeterminedAndUsed ==
    /\ (Returned("determine_scalar") /\ outcome.status = "ok") =>
          /\ acq = 2
          /\ scalar = Rat(Abs(reading - offset), arg)
          /\ outcome.value = scalar
    /\ (Returned("read") /\ dsValid) =>
          /\ outcome.status = "ok"
          /\ outcome.value = Rat((outcome.raw - dsO) * dsS[2], dsS[1])

\* C8: tare() followed by read() on an unchanged constant input returns 0,
\* whatever scalar the driver holds.
C8_TareThenReadIsZero ==
    (Returned("read") /\ stable) =>
        /\ offset = Signed24(word)
        /\ outcome.status = "ok"
        /\ outcome.value = <<0, 1>>

\* C9: read_average(count), count >= 1, makes exactly count acquisitions and
\* returns the floor of their sum over count; on a constant input c it
\* returns c.
C9_ReadAverageFloor ==
    (Returned("read_average") /\ arg >= 1) =>
        /\ acq = arg /\ n = arg
        /\ outcome.status = "ok"
        /\ outcome.value * arg <= sum
        /\ sum < (outcome.value + 1) * arg
        /\ steady => outcome.value = Signed24(word)

\* C9 witness: an average over a negative sum that count does not divide
C9_Witness ==
    /\ Returned("read_average") /\ arg >= 2
    /\ outcome.status = "ok"
    /\ sum < 0 /\ sum % arg # 0

\* C10: on the PIO backend the pulse program always matches the stored gain:
\* a gain change rebuilds the session, and every cycle after it issues
\* 24 + gain pulses.
C10_SessionFollowsGain ==
    (backend = "PIO" /\ Constructed) =>
        /\ smGain = gain
        /\ lastPulses \in {0, HX_DATA_BITS + gain}

C3_FullPulseTrain ==
    /\ (lpc = "idle" /\ smpc \in {"off", "wait", "stall"}) =>
           pulses \in {0, HX_DATA_BITS + gain}
    /\ (edges = 0 /\ pin_data = 0) => pulses \in {0, HX_DATA_BITS + gain}

\* C4: what HX711_GPIO.read_raw returns is decode(u), u the unsigned number
\* formed MSB first from the 24 bits sampled after the first 24 falling edges;
\* it lies in [-2^23, 2^23 - 1] whatever the data line shows during the
\* trailing gain pulses.
C4_GpioDecode ==
    (backend = "GPIO" /\ lpc = "idle" /\ result # <<>>) =>
        /\ result = <<Signed24(u24)>>
        /\ result[1] >= -8388608 /\ result[1] <= 8388607
        /\ pulses = HX_DATA_BITS + gain

\* C4 witness: a read at gain 3 has returned the most negative sample although
\* the data line read high on the last gain pulse
C4_Witness ==
    /\ backend = "GPIO" /\ lpc = "idle" /\ gain = 3
    /\ result = <<-8388608>>
    /\ u24 = 8388608
    /\ raw_reading % 2 = 1

\* C11: every call of HX711_GPIO.read_raw eventually ends, with a sample or
\* with a failure, also when the data line never reports ready.
C11_ReadRawEnds ==
    (backend = "GPIO" /\ lpc # "idle") ~> (lpc = "idle")

\* C12: constructing a HX711_PIO makes one discarded read after the session is
\* set up and before offset, scalar and the optional tare: the acquisitions of
\* a construction are that one read, followed by those of tare() if asked for.
C12_PioDiscardedReadFirst ==
    (backend = "PIO" /\ Returned("init")) =>
        acq = 1 + (IF arg THEN TareReads(TRUE) ELSE 0)

\* C13: tare(pre_read=True) makes exactly 15 acquisitions and tare(False)
\* exactly 10; the offset it stores is the floor average of the last 10 of
\* them, the 5 pre-reads are dropped; scalar and gain stay as they were and the
\* call returns nothing.
C13_TareStep ==
    (pc = "idle" /\ pc' = "returned" /\ op' = "tare") =>
        /\ acq' = (IF arg' THEN TARE_PRE_COUNT + AVERAGE_DEFAULT ELSE AVERAGE_DEFAULT)
        /\ n' = AVERAGE_DEFAULT
        /\ offset' * AVERAGE_DEFAULT <= sum'
        /\ sum' < (offset' + 1) * AVERAGE_DEFAULT
        /\ steady' => offset' = Signed24(word)
        /\ gain' = gain /\ scalar' = scalar
        /\ outcome' = Ok(None)
C13_Tare == [][C13_TareStep]_vars

\* C13 witness: a tare with pre-reads has returned; the input changed during
\* the call and the offset is the negative sample the device ended on
C13_Witness ==
    /\ Returned("tare") /\ arg = TRUE /\ acq = TARE_PRE_COUNT + AVERAGE_DEFAULT
    /\ ~steady
    /\ offset = Signed24(word) /\ offset < 0

\* C14: read_average(0) raises ZeroDivisionError, makes no acquisition and
\* issues no clock pulse, and leaves offset, scalar and gain as they were.
C14_ReadAverageZeroStep ==
    (pc = "idle" /\ pc' = "returned" /\ op' = "read_average" /\ arg' = 0) =>
        /\ outcome' = Raised("ZeroDivisionError")
        /\ acq' = 0 /\ lastPulses' = 0
        /\ word' = word
        /\ offset' = offset /\ scalar' = scalar /\ gain' = gain
C14_ReadAverageZero == [][C14_ReadAverageZeroStep]_vars

\* C14 witness: read_average(0) has ended on a driver with a tared offset
C14_Witness ==
    /\ Returned("read_average") /\ arg = 0
    /\ outcome.status = "ZeroDivisionError"
    /\ acq = 0 /\ established /\ offset # 0

\* C15: determine_scalar(0) on a driver whose offset has been established
\* raises ZeroDivisionError and leaves scalar and offset as they were; no
\* failed determine_scalar stores a scalar.
C15_DetermineScalarZeroStep ==
    /\ (pc = "idle" /\ pc' = "returned" /\ op' = "determine_scalar"
            /\ arg' = 0 /\ established) =>
           /\ outcome' = Raised("ZeroDivisionError")
           /\ scalar' = scalar /\ offset' = offset
    /\ (pc = "idle" /\ pc' = "returned" /\ op' = "determine_scalar"
            /\ outcome'.status # "ok") =>
           scalar' = scalar
C15_DetermineScalarZero == [][C15_DetermineScalarZeroStep]_vars

\* C16: in HX711_GPIO.read_raw the clock moves only inside the pulse loop,
\* which is entered only after the data line was seen low in this call; a
\* pulse is a rising edge followed by a falling edge; a sample is taken only
\* after the falling edge, with the clock low; and the clock is low whenever
\* no read_raw is executing.
C16_GpioStep ==
    backend = "GPIO" =>
        /\ pin_clk' # pin_clk => lpc \in {"loop", "high"}
        /\ (lpc' = "loop" /\ lpc # "low") => (lpc = "poll" /\ pin_data = 0)
        /\ pin_clk' > pin_clk => (lpc = "loop" /\ lpc' = "high")
        /\ lpc = "high" => (pin_clk = 1 /\ pin_clk' = 0 /\ lpc' = "low")
        /\ i' # i /\ lpc # "poll" => (lpc = "low" /\ pin_clk = 0 /\ pin_clk' = 0)
        /\ lpc \in {"idle", "poll", "sleep"} => pin_clk = 0
        /\ lpc' \in {"idle", "poll", "sleep"} => pin_clk' = 0
C16_GpioClocking == [][C16_GpioStep]_vars

\* C16 witness: after a wait for the device the last data bit is about to be
\* sampled, the clock back low
C16_Witness ==
    /\ backend = "GPIO" /\ lpc = "low" /\ pin_clk = 0
    /\ i = HX_DATA_BITS - 1 /\ polls >= 1

\* C17: on HX711_GPIO a read_raw issues 24 + gain pulses with the gain stored
\* at that time, and these select the device's input for the next conversion:
\* the first read_raw after a gain change returns a conversion made under the
\* selection in force before it, every later one a conversion made under the
\* new gain.
C17_GainStep ==
    (pc = "idle" /\ pc' = "returned" /\ op' = "read_raw") =>
        /\ lastPulses' = HX_DATA_BITS + gain
        /\ selected' = gain
        /\ readsSinceGain = 0 => convUnder' = selected
        /\ readsSinceGain >= 1 => convUnder' = gain
C17_GainTakesEffect == [][C17_GainStep]_vars

\* C18: the word HX711_PIO.read_raw returns is never stale: its 24 data bits
\* were not all sampled before the call began, also when the program had
\* stalled on a full FIFO with a completed word waiting to be pushed.
C18_PioWordFresh ==
    (backend = "PIO" /\ lpc = "idle" /\ result # <<>>) => resultFresh

\* C19: read_raw(), read_average(n) and read(n) leave offset, scalar and gain
\* as they were, for every n and however they end; tare() changes nothing of
\* them but offset, determine_scalar() nothing but scalar.
C19_FrameStep ==
    (pc = "idle" /\ pc' = "returned") =>
        /\ op' \in {"read_raw", "read_average", "read"} =>
               (offset' = offset /\ scalar' = scalar /\ gain' = gain)
        /\ op' = "tare" => (scalar' = scalar /\ gain' = gain)
        /\ op' = "determine_scalar" => (offset' = offset /\ gain' = gain)
====
